---- MODULE Spec2Model ----
(***************************************************************************)
(* The calculator API of app.js: an Express application with the routes    *)
(* GET /add and GET /subtract, the route handlers and arithmetic functions *)
(* they require, and the validation middleware that README.md describes.   *)
(*                                                                         *)
(* Three specifications are given.  Spec is the application as app.js      *)
(* builds it: its layer stack holds the two routes and nothing else.       *)
(* SpecReadme is the application the README describes: the same stack      *)
(* with the validation middleware mounted before the routes.  SpecUnit     *)
(* is the unit-test harness of the README calling lib/add and lib/subtract *)
(* directly.  SpecLive is Spec with the fairness of the route handlers.    *)
(*                                                                         *)
(* Node runs each request's pipeline synchronously; the model lets the     *)
(* stages of different requests interleave, which includes every schedule  *)
(* the runtime can produce.                                                *)
(***************************************************************************)
EXTENDS Integers, Sequences, FiniteSets, TLC

\* Number of requests a run receives.
MaxReqs == 2
\* Largest magnitude of the operands handed to the arithmetic functions
\* by the unit tests.
MaxOperand == 4

VARIABLES reqs, call

vars == <<reqs, call>>

ReqIds == 1..MaxReqs

-----------------------------------------------------------------------------
(* JavaScript values.  A number is an integer or NaN.                      *)

Num(n) == [t |-> "int", v |-> n]
NaN == [t |-> "NaN", v |-> 0]
Undefined == [t |-> "undefined", v |-> 0]
Null == [t |-> "null", v |-> 0]

\* isNaN(x) for x a number or undefined (Number(undefined) is NaN).
isNaN(x) == x.t \in {"NaN", "undefined"}

\* !x : true of the falsy values 0, NaN, undefined, null.
Not(x) == \/ x.t \in {"NaN", "undefined", "null"}
          \/ x.t = "int" /\ x.v = 0

-----------------------------------------------------------------------------
(* Query strings.  A string is a sequence of one-character strings; a      *)
(* query parameter is a string, or absent (req.query.a is undefined).      *)

Str(s) == [present |-> TRUE, s |-> s]
Missing == [present |-> FALSE, s |-> <<>>]

Digits == {"0", "1", "2", "3", "4", "5", "6", "7", "8", "9"}

DigitVal(c) ==
  CASE c = "0" -> 0 [] c = "1" -> 1 [] c = "2" -> 2 [] c = "3" -> 3
    [] c = "4" -> 4 [] c = "5" -> 5 [] c = "6" -> 6 [] c = "7" -> 7
    [] c = "8" -> 8 [] c = "9" -> 9

\* The text after the leading white space of s.
RECURSIVE TrimStart(_)
TrimStart(s) ==
  IF s # <<>> /\ Head(s) = " " THEN TrimStart(Tail(s)) ELSE s

\* The number of leading decimal digits of s.
RECURSIVE DigitPrefixLen(_)
DigitPrefixLen(s) ==
  IF s # <<>> /\ Head(s) \in Digits THEN 1 + DigitPrefixLen(Tail(s)) ELSE 0

\* The value of the first n characters of s, all decimal digits.
RECURSIVE DigitsValue(_, _)
DigitsValue(s, n) ==
  IF n = 0 THEN 0 ELSE 10 * DigitsValue(s, n - 1) + DigitVal(s[n])

\* parseInt(q), radix 10: skip leading white space, read an optional sign,
\* then the longest run of digits; what follows the digits is ignored, and
\* the result is NaN when there is no digit.  An absent parameter is the
\* text "undefined", which has no digit.
parseInt(q) ==
  IF ~q.present THEN NaN
  ELSE LET t == TrimStart(q.s)
           signed == t # <<>> /\ Head(t) \in {"-", "+"}
           sign == IF t # <<>> /\ Head(t) = "-" THEN -1 ELSE 1
           body == IF signed THEN Tail(t) ELSE t
           n == DigitPrefixLen(body)
       IN IF n = 0 THEN NaN ELSE Num(sign * DigitsValue(body, n))

-----------------------------------------------------------------------------
(* lib/add.js and lib/subtract.js.  The operators + and - of JavaScript    *)
(* give NaN when an operand is NaN or undefined.                           *)

\* lib/add.js as first stubbed: function(){ return 0; }
add_stub(a, b) == Num(0)

add(a, b) ==
  IF a.t = "int" /\ b.t = "int" THEN Num(a.v + b.v) ELSE NaN

subtract(a, b) ==
  IF a.t = "int" /\ b.t = "int" THEN Num(a.v - b.v) ELSE NaN

-----------------------------------------------------------------------------
(* Responses.                                                              *)

NoResponse == [sent |-> 0, status |-> 0, type |-> "none", result |-> Undefined]

\* JSON.stringify of a property value: NaN is written as null, and an
\* undefined property is left out.
JsonValue(v) == IF v.t = "NaN" THEN Null ELSE v

\* res.json({ result : v }) on a response: status 200 unless set before.
ResJson(res, v) ==
  [sent |-> res.sent + 1, status |-> 200, type |-> "json",
   result |-> JsonValue(v)]

\* res.status(code).end(text)
ResStatusEnd(res, code) ==
  [sent |-> res.sent + 1, status |-> code, type |-> "text",
   result |-> Undefined]

-----------------------------------------------------------------------------
(* Route handlers and the validation middleware, as functions of the       *)
(* request they are called with.                                           *)

\* A handler that keeps a hit counter and reports it as the result.
routes_add_counting(req) ==
  ResJson(req.res, Num(Cardinality({r \in ReqIds : reqs[r].state = "done"})))

\* A handler that reads the operands from process-wide variables, which
\* hold the operands of the request validated last, instead of from req.
routes_add_global(req) ==
  LET validated == {r \in ReqIds : reqs[r].state = "pending" /\ reqs[r].a.t = "int"}
      g == CHOOSE r \in validated : \A j \in validated : j <= r
  IN IF validated = {} THEN ResJson(req.res, add(Undefined, Undefined))
     ELSE ResJson(req.res, add(reqs[g].a, reqs[g].b))

\* A handler that answers the same request twice.
routes_add_twice(req) ==
  ResJson(ResJson(req.res, add(req.a, req.b)), add(req.a, req.b))

\* routes/add.js : res.json({ result : add(req.a, req.b) })
routes_add(req) == ResJson(req.res, add(req.a, req.b))

\* routes/subtract.js
routes_subtract(req) == ResJson(req.res, subtract(req.a, req.b))

UnprocessableEntity == 422

\* The validation middleware.  ended: the response was sent and next() is
\* not called; otherwise a and b are attached to the request.
validate(req) ==
  LET a == parseInt(req.qa)
      b == parseInt(req.qb)
  IN IF Not(a) \/ Not(b) \/ isNaN(a) \/ isNaN(b)
     THEN [ended |-> TRUE, res |-> ResStatusEnd(req.res, UnprocessableEntity),
           a |-> req.a, b |-> req.b]
     ELSE [ended |-> FALSE, res |-> req.res, a |-> a, b |-> b]

-----------------------------------------------------------------------------
(* The layer stack of the application.                                     *)

Route(path, handle) == [kind |-> "route", path |-> path, handle |-> handle]
Use(handle) == [kind |-> "use", path |-> "*", handle |-> handle]

\* app.js: app.get('/add', ...); app.get('/subtract', ...)
AppStack == << Route("/add", "add"), Route("/subtract", "subtract") >>

\* README.md: the same application with app.use(<validation>) mounted
\* before the two routes.
ReadmeStack == << Use("validate") >> \o AppStack

Paths == {"/add", "/subtract"}

Matches(layer, path) == layer.kind = "use" \/ layer.path = path

\* The index of the first layer at or after position idx that matches the
\* request's path; 0 when there is none.
NextLayer(stack, req) ==
  LET hits == {i \in req.idx..Len(stack) : Matches(stack[i], req.path)}
  IN IF hits = {} THEN 0 ELSE CHOOSE i \in hits : \A j \in hits : i <= j

\* The handle the router calls next for the request, "" when none.
NextHandle(stack, req) ==
  IF NextLayer(stack, req) = 0 THEN "" ELSE stack[NextLayer(stack, req)].handle

-----------------------------------------------------------------------------
(* Inputs.                                                                 *)

One       == Str(<<"1">>)
MinusTwo  == Str(<<"-", "2">>)
Zero      == Str(<<"0">>)
Word      == Str(<<"s", "t", "r", "i", "n", "g">>)
Decimal   == Str(<<"1", ".", "5">>)
DigitsThenLetters == Str(<<"2", "a", "b", "c">>)

QueryValues == {Missing, One, MinusTwo, Zero, Word, Decimal, DigitsThenLetters}

\* The query strings a request carries: every value paired with "1" on
\* either side, and two negative operands.
Queries ==
  {q \in QueryValues \X QueryValues :
     q[1] = One \/ q[2] = One \/ q = <<MinusTwo, MinusTwo>>}

Operands == (0 - MaxOperand)..MaxOperand

-----------------------------------------------------------------------------
(* State.                                                                  *)

IdleReq ==
  [state |-> "idle", path |-> "", qa |-> Missing, qb |-> Missing, idx |-> 0,
   a |-> Undefined, b |-> Undefined, res |-> NoResponse, ran |-> <<>>]

NoCall == [fn |-> "none", x |-> 0, y |-> 0, result |-> Undefined]

Init ==
  /\ reqs = [r \in ReqIds |-> IdleReq]
  /\ call = NoCall

\* A request arrives; requests are numbered in the order they arrive.
Arrive(r, path, q) ==
  /\ reqs[r].state = "idle"
  /\ \A p \in ReqIds : p < r => reqs[p].state # "idle"
  /\ reqs' = [reqs EXCEPT ![r] =
       [IdleReq EXCEPT !.state = "pending", !.path = path,
                       !.qa = q[1], !.qb = q[2], !.idx = 1]]
  /\ UNCHANGED call

\* The router reaches the validation middleware for request r.
Validate(stack, r) ==
  LET req == reqs[r]
      out == validate(req)
  IN /\ req.state = "pending"
     /\ NextHandle(stack, req) = "validate"
     /\ reqs' = [reqs EXCEPT ![r] =
          [req EXCEPT !.state = IF out.ended THEN "done" ELSE "pending",
                      !.idx = NextLayer(stack, req) + 1,
                      !.a = out.a, !.b = out.b, !.res = out.res,
                      !.ran = Append(req.ran, "validate")]]
     /\ UNCHANGED call

\* The router reaches the /add route for request r.
AddRoute(stack, r) ==
  LET req == reqs[r]
  IN /\ req.state = "pending"
     /\ NextHandle(stack, req) = "add"
     /\ reqs' = [reqs EXCEPT ![r] =
          [req EXCEPT !.state = "done",
                      !.idx = NextLayer(stack, req) + 1,
                      !.res = routes_add(req),
                      !.ran = Append(req.ran, "add")]]
     /\ UNCHANGED call

\* The router reaches the /subtract route for request r.
SubtractRoute(stack, r) ==
  LET req == reqs[r]
  IN /\ req.state = "pending"
     /\ NextHandle(stack, req) = "subtract"
     /\ reqs' = [reqs EXCEPT ![r] =
          [req EXCEPT !.state = "done",
                      !.idx = NextLayer(stack, req) + 1,
                      !.res = routes_subtract(req),
                      !.ran = Append(req.ran, "subtract")]]
     /\ UNCHANGED call

\* A unit test calls lib/add.
CallAdd(x, y) ==
  /\ call' = [fn |-> "add", x |-> x, y |-> y, result |-> add(Num(x), Num(y))]
  /\ UNCHANGED reqs

\* A unit test calls lib/subtract.
CallSubtract(x, y) ==
  /\ call' = [fn |-> "subtract", x |-> x, y |-> y,
              result |-> subtract(Num(x), Num(y))]
  /\ UNCHANGED reqs

Next ==
  \/ \E r \in ReqIds, path \in Paths, q \in Queries : Arrive(r, path, q)
  \/ \E r \in ReqIds : AddRoute(AppStack, r)
  \/ \E r \in ReqIds : SubtractRoute(AppStack, r)

NextReadme ==
  \/ \E r \in ReqIds, path \in Paths, q \in Queries : Arrive(r, path, q)
  \/ \E r \in ReqIds : Validate(ReadmeStack, r)
  \/ \E r \in ReqIds : AddRoute(ReadmeStack, r)
  \/ \E r \in ReqIds : SubtractRoute(ReadmeStack, r)

NextUnit ==
  \/ \E x \in Operands, y \in Operands : CallAdd(x, y)
  \/ \E x \in Operands, y \in Operands : CallSubtract(x, y)

Spec == Init /\ [][Next]_vars

SpecReadme == Init /\ [][NextReadme]_vars

SpecUnit == Init /\ [][NextUnit]_vars

\* The router calls the matching handler in the same turn the request
\* arrives in: while a request is pending, a route handler runs.
SpecLive ==
  /\ Init /\ [][Next]_vars
  /\ WF_vars(\E r \in ReqIds : AddRoute(AppStack, r) \/ SubtractRoute(AppStack, r))

-----------------------------------------------------------------------------
(* Vocabulary of the properties.                                           *)

Done(r) == reqs[r].state = "done"

AllDigits(s) == s # <<>> /\ \A i \in 1..Len(s) : s[i] \in Digits

\* q is the text of an integer: an optional minus sign, then digits only.
IsIntText(q) ==
  /\ q.present
  /\ \/ AllDigits(q.s)
     \/ q.s # <<>> /\ Head(q.s) = "-" /\ AllDigits(Tail(q.s))

RECURSIVE Pow10(_)
Pow10(k) == IF k = 0 THEN 1 ELSE 10 * Pow10(k - 1)

\* The number that the digits of s write, each digit weighted by its place.
RECURSIVE PlaceSum(_)
PlaceSum(s) ==
  IF s = <<>> THEN 0
  ELSE DigitVal(Head(s)) * Pow10(Len(s) - 1) + PlaceSum(Tail(s))

\* The integer that the text q writes.
IntOf(q) ==
  IF Head(q.s) = "-" THEN 0 - PlaceSum(Tail(q.s)) ELSE PlaceSum(q.s)

IsNonZeroIntText(q) == IsIntText(q) /\ IntOf(q) # 0

IsZeroText(q) == IsIntText(q) /\ IntOf(q) = 0

\* q is the text of a number: an integer, or an integer, a point and digits.
IsNumberText(q) ==
  \/ IsIntText(q)
  \/ /\ q.present
     /\ \E i \in 1..Len(q.s) :
          /\ q.s[i] = "."
          /\ IsIntText(Str(SubSeq(q.s, 1, i - 1)))
          /\ AllDigits(SubSeq(q.s, i + 1, Len(q.s)))

HandlerRan(r) ==
  \E i \in 1..Len(reqs[r].ran) : reqs[r].ran[i] \in {"add", "subtract"}

\* The response the README pipeline gives a request served alone.
Alone(path, qa, qb) ==
  LET req == [IdleReq EXCEPT !.state = "pending", !.path = path,
                             !.qa = qa, !.qb = qb, !.idx = 1]
      out == validate(req)
      fwd == [req EXCEPT !.a = out.a, !.b = out.b]
  IN IF out.ended THEN out.res
     ELSE IF path = "/add" THEN routes_add(fwd) ELSE routes_subtract(fwd)

-----------------------------------------------------------------------------
(* Properties.                                                             *)

\* C1: every answered GET /add whose a and b are the text of non-zero
\* integers has status 200 and a JSON body whose result is a + b.
C1_AddReturnsSum ==
  \A r \in ReqIds :
    (/\ Done(r) /\ reqs[r].path = "/add"
     /\ IsNonZeroIntText(reqs[r].qa) /\ IsNonZeroIntText(reqs[r].qb))
    => /\ reqs[r].res.status = 200
       /\ reqs[r].res.type = "json"
       /\ reqs[r].res.result = Num(IntOf(reqs[r].qa) + IntOf(reqs[r].qb))

\* C2: every answered GET /subtract whose a and b are the text of non-zero
\* integers has status 200 and a JSON body whose result is the number a - b.
C2_SubtractReturnsDifference ==
  \A r \in ReqIds :
    (/\ Done(r) /\ reqs[r].path = "/subtract"
     /\ IsNonZeroIntText(reqs[r].qa) /\ IsNonZeroIntText(reqs[r].qb))
    => /\ reqs[r].res.status = 200
       /\ reqs[r].res.type = "json"
       /\ reqs[r].res.result = Num(IntOf(reqs[r].qa) - IntOf(reqs[r].qb))

\* C3: every answered request in which a or b is missing, or is not the
\* text of a number, has status 422.
C3_MissingOrNonNumericIs422 ==
  \A r \in ReqIds :
    (/\ Done(r)
     /\ \/ ~reqs[r].qa.present \/ ~reqs[r].qb.present
        \/ ~IsNumberText(reqs[r].qa) \/ ~IsNumberText(reqs[r].qb))
    => reqs[r].res.status = 422

\* C4: a route handler runs for a request only after the validation step
\* has run for it and attached two integers, and a request that is answered
\* 422 has had no handler run for it.
C4_HandlerOnlyAfterValidation ==
  \A r \in ReqIds :
    /\ HandlerRan(r) =>
         /\ reqs[r].ran[1] = "validate"
         /\ reqs[r].a.t = "int" /\ reqs[r].b.t = "int"
    /\ reqs[r].res.status = 422 => ~HandlerRan(r)

\* C5: every answered request in which a or b is the text of zero has
\* status 422.
C5_ZeroIs422 ==
  \A r \in ReqIds :
    (Done(r) /\ (IsZeroText(reqs[r].qa) \/ IsZeroText(reqs[r].qb)))
    => reqs[r].res.status = 422

\* C6: every answered request in which a or b is given and is not the text
\* of an integer has status 422.
C6_NonIntegerIs422 ==
  \A r \in ReqIds :
    (/\ Done(r)
     /\ \/ reqs[r].qa.present /\ ~IsIntText(reqs[r].qa)
        \/ reqs[r].qb.present /\ ~IsIntText(reqs[r].qb))
    => reqs[r].res.status = 422

\* C7: two answered requests with the same path and the same query
\* parameters have the same status and the same body, whatever was served
\* in between.
C7_SameRequestSameResponse ==
  \A r1 \in ReqIds, r2 \in ReqIds :
    (/\ Done(r1) /\ Done(r2)
     /\ reqs[r1].path = reqs[r2].path
     /\ reqs[r1].qa = reqs[r2].qa /\ reqs[r1].qb = reqs[r2].qb)
    => reqs[r1].res = reqs[r2].res

C7_Witness ==
  /\ Done(1) /\ Done(2)
  /\ reqs[1].path = reqs[2].path
  /\ reqs[1].qa = reqs[2].qa /\ reqs[1].qb = reqs[2].qb
  /\ reqs[1].res.status = 200

\* A step of the pipeline changes the record of one request at most.
OneRequestPerStep ==
  \A r \in ReqIds :
    reqs'[r] # reqs[r] => \A o \in ReqIds \ {r} : reqs'[o] = reqs[o]

\* The operands attached to a request are those of its own query string,
\* and its response is the one it gets when served alone.
OwnOperandsOwnResponse ==
  \A r \in ReqIds :
    /\ reqs[r].a.t = "int" =>
         reqs[r].a = parseInt(reqs[r].qa) /\ reqs[r].b = parseInt(reqs[r].qb)
    /\ Done(r) => reqs[r].res = Alone(reqs[r].path, reqs[r].qa, reqs[r].qb)

\* C8: under every interleaving of the validation and handler steps of the
\* requests in flight, a request's response is a function of its own path
\* and query parameters, and no step of one request reads or writes the
\* operands attached to another.
C8_NoCrossRequestInterference ==
  []OwnOperandsOwnResponse /\ [][OneRequestPerStep]_vars

\* A request has been answered by its handler while another request, with
\* other operands attached, is between validation and its handler.
C8_Witness ==
  \E r1 \in ReqIds, r2 \in ReqIds :
    /\ Done(r1) /\ reqs[r1].res.type = "json"
    /\ reqs[r2].state = "pending" /\ reqs[r2].a.t = "int"
    /\ reqs[r2].a # reqs[r1].a

\* No request is answered before its pipeline ends or more than once, and
\* an answered request has exactly one response, of status 200 or 422.
OneResponse200Or422 ==
  \A r \in ReqIds :
    /\ reqs[r].res.sent <= 1
    /\ reqs[r].state = "pending" => reqs[r].res.sent = 0
    /\ Done(r) => reqs[r].res.sent = 1 /\ reqs[r].res.status \in {200, 422}

\* C9: every request that arrives is eventually answered, exactly once,
\* with status 200 or 422.
C9_ExactlyOneResponse ==
  /\ []OneResponse200Or422
  /\ \A r \in ReqIds : (reqs[r].state = "pending") ~> Done(r)

C9_Witness ==
  \A r \in ReqIds :
    Done(r) /\ reqs[r].res.sent = 1 /\ reqs[r].res.status = 200

====
